---- MODULE Spec2Model ----
(***************************************************************************)
(* Model of two programs of the repository:                                *)
(*   utils/generate_channels.js  - the protocol schema compiler: one run   *)
(*     reads protocol.yml, builds the channel/inheritance/mixin indexes,   *)
(*     emits channels.ts and validator.ts in memory and rewrites the two   *)
(*     files when their content differs;                                   *)
(*   packages/playwright-core/src/common/userAgent.ts - getUserAgent()     *)
(*     with its module-level cache.                                        *)
(* Texts are TLA+ strings built with \o exactly as the template literals   *)
(* of the source build them.  An array of lines is a sequence.             *)
(***************************************************************************)
EXTENDS Integers, Sequences, FiniteSets, TLC

VARIABLES
  protocol,                 \* yaml.parse(yml): ordered sequence of entities
  channels,                 \* const channels = new Set()
  inherits,                 \* const inherits = new Map(), insertion ordered: <<child, parent>>
  mixins,                   \* const mixins = new Map(): name -> entity
  derivedClasses,           \* const derivedClasses = new Map(): parent -> children
  channels_ts,              \* const channels_ts = [...]
  validator_ts,             \* const validator_ts = [...]
  tracingSnapshots,         \* const tracingSnapshots = []
  pausesBeforeInputActions, \* const pausesBeforeInputActions = []
  hasChanges,               \* let hasChanges = false
  pc,                       \* position of the script
  idx,                      \* position of the main loop over Object.entries(protocol)
  files,                    \* the two target files on disk
  exitCode,                 \* argument of process.exit, -1 while none was made
  error,                    \* the exception that ended the run, "" if none
  run,                      \* number of the current invocation
  written,                  \* files fs.writeFileSync rewrote in this invocation
  before,                   \* the two files as this invocation found them
  prev,                     \* how the previous invocation ended
  cachedUserAgent,          \* let cachedUserAgent: string | undefined
  env,                      \* process.platform, process.env, os.*, package.json
  determineCalls,           \* invocations of determineUserAgent()
  returned                  \* values getUserAgent() returned, in call order

genVars == <<protocol, channels, inherits, mixins, derivedClasses, channels_ts,
             validator_ts, tracingSnapshots, pausesBeforeInputActions, hasChanges,
             pc, idx, files, exitCode, error, run, written, before, prev>>
uaVars == <<cachedUserAgent, env, determineCalls, returned>>
vars == <<genVars, uaVars>>

\* ---------------------------------------------------------------- bounds
MaxEntities == 3     \* entities of one schema document
MaxRuns == 2         \* invocations of the generator in one behaviour
MaxCalls == 3        \* calls of getUserAgent() in one process

\* ---------------------------------------------------------------- helpers
Range(s) == {s[i] : i \in 1..Len(s)}

RECURSIVE Join(_, _)
\* Array.prototype.join
Join(s, sep) ==
  IF s = <<>> THEN ""
  ELSE IF Len(s) = 1 THEN s[1]
  ELSE s[1] \o sep \o Join(Tail(s), sep)

RECURSIVE Reverse(_)
\* Array.prototype.reverse
Reverse(s) == IF s = <<>> THEN <<>> ELSE Append(Reverse(Tail(s)), Head(s))

RECURSIVE Flatten(_)
Flatten(ss) == IF ss = <<>> THEN <<>> ELSE Head(ss) \o Flatten(Tail(ss))

EmptyMap == [k \in {} |-> k]

\* Map.prototype.set on an insertion-ordered map of <<key, value>> pairs: an
\* existing key keeps its place and takes the new value.
MapSet(m, k, v) ==
  IF \E i \in 1..Len(m) : m[i][1] = k
  THEN [i \in 1..Len(m) |-> IF m[i][1] = k THEN <<k, v>> ELSE m[i]]
  ELSE Append(m, <<k, v>>)

\* ---------------------------------------------------------------- schema values
\* A type expression of protocol.yml.  A YAML string "number?" is the token
\* "number" with optional = TRUE; {type: 'array?', items: ...} is tag "array"
\* with optional = TRUE.
Tok(name, opt) ==
  [tag |-> "token", name |-> name, optional |-> opt, items |-> <<>>,
   literals |-> <<>>, properties |-> <<>>]
Arr(opt, item) ==
  [tag |-> "array", name |-> "", optional |-> opt, items |-> <<item>>,
   literals |-> <<>>, properties |-> <<>>]
Enm(opt, lits) ==
  [tag |-> "enum", name |-> "", optional |-> opt, items |-> <<>>,
   literals |-> lits, properties |-> <<>>]
Obj(opt, props) ==
  [tag |-> "object", name |-> "", optional |-> opt, items |-> <<>>,
   literals |-> <<>>, properties |-> props]
\* One entry of a property mapping.
Prop(name, value) == [name |-> name, value |-> value]

\* One command; has* are FALSE where the key is absent (or the command is null).
Cmd(name, hasP, params, hasR, rets, snap, pause) ==
  [name |-> name, hasParameters |-> hasP, parameters |-> params,
   hasReturns |-> hasR, returns |-> rets, snapshot |-> snap,
   pausesBeforeInput |-> pause]

Evt(name, params) == [name |-> name, parameters |-> params]

Interface(name, ext, init, cmds, evts) ==
  [name |-> name, type |-> "interface", extends |-> ext, initializer |-> init,
   commands |-> cmds, events |-> evts, properties |-> <<>>, literals |-> <<>>]
ObjectEntity(name, props) ==
  [name |-> name, type |-> "object", extends |-> "", initializer |-> <<>>,
   commands |-> <<>>, events |-> <<>>, properties |-> props, literals |-> <<>>]
EnumEntity(name, lits) ==
  [name |-> name, type |-> "enum", extends |-> "", initializer |-> <<>>,
   commands |-> <<>>, events |-> <<>>, properties |-> <<>>, literals |-> lits]
MixinEntity(name, props) ==
  [name |-> name, type |-> "mixin", extends |-> "", initializer |-> <<>>,
   commands |-> <<>>, events |-> <<>>, properties |-> props, literals |-> <<>>]

\* The entities a schema document of the model is made of.
A0 == Interface("A", "", <<>>,
        <<Cmd("foo", TRUE, <<Prop("x", Tok("string", FALSE)),
                             Prop("y", Tok("number", TRUE))>>,
              FALSE, <<>>, TRUE, FALSE)>>,
        <<>>)
A1 == Interface("A", "", <<>>,
        <<Cmd("foo", TRUE, <<Prop("z", Tok("boolean", TRUE)),
                             Prop("$mixin", Tok("M", FALSE)),
                             Prop("r", Tok("O", FALSE))>>,
              TRUE, <<Prop("ok", Tok("boolean", FALSE))>>, FALSE, TRUE),
          Cmd("bar", FALSE, <<>>, FALSE, <<>>, FALSE, FALSE)>>,
        <<Evt("close", <<>>)>>)
B0 == Interface("B", "A",
        <<Prop("name", Tok("string", FALSE)), Prop("peer", Tok("A", TRUE)),
          Prop("any", Tok("Channel", FALSE))>>,
        <<>>, <<>>)
B1 == Interface("B", "A", <<>>,
        <<Cmd("foo", TRUE, <<Prop("w", Arr(TRUE, Enm(FALSE, <<"a", "b">>)))>>,
              FALSE, <<>>, TRUE, TRUE)>>,
        <<>>)
C0 == Interface("C", "B", <<>>, <<>>,
        <<Evt("done", <<Prop("e", Tok("E", FALSE))>>)>>)
O0 == ObjectEntity("O",
        <<Prop("a", Arr(FALSE, Enm(TRUE, <<"a", "b">>))),
          Prop("b", Obj(TRUE, <<Prop("i", Tok("json", FALSE)),
                                  Prop("$mixin", Tok("M", FALSE))>>)),
          Prop("e", Tok("E", TRUE))>>)
E0 == EnumEntity("E", <<"a", "b">>)
M0 == MixinEntity("M",
        <<Prop("p", Tok("binary", TRUE)), Prop("q", Tok("number", FALSE))>>)
M1 == MixinEntity("M",
        <<Prop("$mixin1", Tok("N", FALSE)), Prop("p", Tok("string", TRUE))>>)
N0 == MixinEntity("N", <<Prop("n", Tok("undefined", TRUE))>>)

EntityPool == {A0, A1, B0, B1, C0, O0, E0, M0, M1, N0}

\* The parsed documents: a YAML mapping has no key twice.
Schemas ==
  {s \in UNION {[1..n -> EntityPool] : n \in 1..MaxEntities} :
     \A i, j \in 1..Len(s) : i # j => s[i].name # s[j].name}

\* ---------------------------------------------------------------- type resolver
\* name[0].toUpperCase() + name.substring(1), on the names the documents use.
titleCase(name) ==
  CASE name = "string" -> "String"
    [] name = "boolean" -> "Boolean"
    [] name = "number" -> "Number"
    [] name = "undefined" -> "Undefined"
    [] name = "foo" -> "Foo"
    [] name = "bar" -> "Bar"
    [] name = "close" -> "Close"
    [] name = "done" -> "Done"
    [] OTHER -> name

\* name.startsWith('$mixin'), on the keys the documents use.
IsMixinKey(name) == name \in {"$mixin", "$mixin1", "$mixin2"}

\* The JS string a token stands for: the key mixins.get() is asked for.
TokenString(value) == IF value.optional THEN value.name \o "?" ELSE value.name

\* Variant of mixinsGet: mixins.get(value) || { properties: {} }
mixinsGetOrEmpty(value) ==
  IF value.tag = "token" /\ TokenString(value) \in DOMAIN mixins
  THEN <<mixins[TokenString(value)]>>
  ELSE <<[name |-> "", type |-> "mixin", extends |-> "", initializer |-> <<>>,
          commands |-> <<>>, events |-> <<>>, properties |-> <<>>,
          literals |-> <<>>]>>

\* mixins.get(value): <<entity>>, or <<>> for undefined (reading .properties of
\* undefined throws a TypeError).
mixinsGet(value) ==
  IF value.tag = "token" /\ TokenString(value) \in DOMAIN mixins
  THEN <<mixins[TokenString(value)]>>
  ELSE <<>>

\* Variant of skipProperty: the filter of line 90 left out
skipNever(onlyOptional, optional) == FALSE

\* if (onlyOptional && !inner.optional) continue;
skipProperty(onlyOptional, optional) == onlyOptional /\ ~optional

Quoted(literals) == [i \in 1..Len(literals) |-> "'" \o literals[i] \o "'"]

RECURSIVE inlineType(_, _, _), visitProperties(_, _, _)

inlineType(type, indent, wrapEnums) ==
  IF type.tag = "token" THEN
    CASE type.name = "binary" ->
           [ts |-> "Binary", scheme |-> "tBinary", optional |-> type.optional]
      [] type.name = "json" ->
           [ts |-> "any", scheme |-> "tAny", optional |-> type.optional]
      [] type.name \in {"string", "boolean", "number", "undefined"} ->
           [ts |-> type.name, scheme |-> "t" \o titleCase(type.name),
            optional |-> type.optional]
      [] OTHER ->
           IF type.name \in channels
           THEN [ts |-> type.name \o "Channel",
                 scheme |-> "tChannel('" \o type.name \o "')",
                 optional |-> type.optional]
           ELSE IF type.name = "Channel"
           THEN [ts |-> "Channel", scheme |-> "tChannel('*')",
                 optional |-> type.optional]
           ELSE [ts |-> type.name, scheme |-> "tType('" \o type.name \o "')",
                 optional |-> type.optional]
  ELSE IF type.tag = "array" THEN
    LET inner == inlineType(type.items[1], indent, TRUE)
    IN [ts |-> inner.ts \o "[]", scheme |-> "tArray(" \o inner.scheme \o ")",
        optional |-> type.optional]
  ELSE IF type.tag = "enum" THEN
    LET ts == Join(Quoted(type.literals), " | ")
    IN [ts |-> IF wrapEnums THEN "(" \o ts \o ")" ELSE ts,
        scheme |-> "tEnum([" \o Join(Quoted(type.literals), ", ") \o "])",
        optional |-> type.optional]
  ELSE IF type.tag = "object" THEN
    LET arrays == visitProperties(type.properties, indent \o "  ", FALSE)
    IN [ts |-> "{\n" \o Join(arrays.ts, "\n") \o "\n" \o indent \o "}",
        scheme |-> "tObject({\n" \o Join(arrays.scheme, "\n") \o "\n" \o indent \o "})",
        optional |-> type.optional]
  ELSE [ts |-> "", scheme |-> "", optional |-> FALSE]   \* raise(type): see inlineTypeError

\* The arrays ts and scheme of properties() after visitProperties(props).
visitProperties(props, indent, onlyOptional) ==
  IF props = <<>> THEN [ts |-> <<>>, scheme |-> <<>>]
  ELSE
    LET name == Head(props).name
        value == Head(props).value
        rest == visitProperties(Tail(props), indent, onlyOptional)
    IN IF IsMixinKey(name) THEN
         LET mixin == mixinsGet(value)
             spliced == IF mixin = <<>> THEN [ts |-> <<>>, scheme |-> <<>>]
                        ELSE visitProperties(mixin[1].properties, indent, onlyOptional)
         IN [ts |-> spliced.ts \o rest.ts, scheme |-> spliced.scheme \o rest.scheme]
       ELSE
         LET inner == inlineType(value, indent, FALSE)
             wrapped == IF inner.optional THEN "tOptional(" \o inner.scheme \o ")"
                        ELSE inner.scheme
         IN IF skipProperty(onlyOptional, inner.optional) THEN rest
            ELSE [ts |-> <<indent \o name \o (IF inner.optional THEN "?" ELSE "")
                             \o ": " \o inner.ts \o ",">> \o rest.ts,
                  scheme |-> <<indent \o name \o ": " \o wrapped \o ",">> \o rest.scheme]

properties(props, indent, onlyOptional) ==
  LET arrays == visitProperties(props, indent, onlyOptional)
  IN [ts |-> Join(arrays.ts, "\n"), scheme |-> Join(arrays.scheme, "\n")]

objectType(props, indent, onlyOptional) ==
  IF Len(props) = 0 THEN [ts |-> "{}", scheme |-> "tObject({})"]
  ELSE LET inner == properties(props, indent \o "  ", onlyOptional)
       IN [ts |-> "{\n" \o inner.ts \o "\n" \o indent \o "}",
           scheme |-> "tObject({\n" \o inner.scheme \o "\n" \o indent \o "})"]

\* The exception, if any, that resolving throws: "" for none.  The traversal
\* is that of inlineType and visitProperties, so the first one met is named.
RECURSIVE inlineTypeError(_), propertiesError(_)

inlineTypeError(type) ==
  IF type.tag = "token" THEN ""
  ELSE IF type.tag = "array" THEN inlineTypeError(type.items[1])
  ELSE IF type.tag = "enum" THEN ""
  ELSE IF type.tag = "object" THEN propertiesError(type.properties)
  ELSE "Error: Invalid item"

propertiesError(props) ==
  IF props = <<>> THEN ""
  ELSE
    LET name == Head(props).name
        value == Head(props).value
        here == IF IsMixinKey(name)
                THEN IF mixinsGet(value) = <<>> THEN "TypeError"
                     ELSE propertiesError(mixinsGet(value)[1].properties)
                ELSE inlineTypeError(value)
    IN IF here # "" THEN here ELSE propertiesError(Tail(props))

RECURSIVE FirstError(_)
FirstError(errs) ==
  IF errs = <<>> THEN ""
  ELSE IF Head(errs) # "" THEN Head(errs) ELSE FirstError(Tail(errs))

\* ---------------------------------------------------------------- emitted lines
\* One element of channels_ts.  A line `export type ${name} = ${text};` keeps
\* its two parts; any other line is its text.
Line(text) == [kind |-> "line", name |-> "", text |-> text]
TypeDecl(name, ts) == [kind |-> "type", name |-> name, text |-> ts]

\* One element of validator_ts: the header, the trailer (name "") or the lines
\* of one `scheme.${name} = ${s};`.
Entry(name, s) == [name |-> name, s |-> s]

ChannelsBanner ==
  "// This file is generated by generate_channels.js, do not edit manually.\n\nexport type Binary = string;\n\nexport interface Channel {\n}\n"
ValidatorBanner ==
  "// This file is generated by generate_channels.js, do not edit manually.\n\nexport function createScheme(tChannel: (name: string) => Validator): Scheme {\n  const scheme: Scheme = {};\n"
ValidatorTrailer == "\n  return scheme;\n}\n"

\* Variant of addScheme: nothing is pushed
addSchemeDropped(lines, name, s) == lines

\* addScheme(name, s): validator_ts.push(...)
addScheme(lines, name, s) == Append(lines, Entry(name, s))

\* Variant of inheritsFrom: no key matches
inheritsFromNobody(key, channelName) == FALSE

\* inherits.get(key) === channelName, key being the i-th key of inherits
inheritsFrom(key, channelName) ==
  \E i \in 1..Len(inherits) : inherits[i][1] = key /\ inherits[i][2] = channelName

\* Variant of derivedOf: no derived class is looked up
derivedOfNone(name) == <<>>

\* derivedClasses.get(name) || []
derivedOf(name) ==
  IF name \in DOMAIN derivedClasses THEN derivedClasses[name] ELSE <<>>

\* Variant of entriesInReverse: .reverse() left out
entriesInOrder(entries) == entries

\* Object.entries(protocol).reverse()
entriesInReverse(entries) == Reverse(entries)

InterfacesOf(entries) == SelectSeq(entries, LAMBDA e : e.type = "interface")

\* One of the three trait chains: a branch per interface of entriesInReverse.
traitBranches(suffix) ==
  LET es == InterfacesOf(entriesInReverse(protocol))
  IN [i \in 1..Len(es) |->
        Line("    T extends " \o es[i].name \o "Channel ? " \o es[i].name \o suffix \o " :")]

\* ---------------------------------------------------------------- one interface
paramsNameOf(channelName, methodName) == channelName \o titleCase(methodName) \o "Params"
optionsNameOf(channelName, methodName) == channelName \o titleCase(methodName) \o "Options"
resultNameOf(channelName, methodName) == channelName \o titleCase(methodName) \o "Result"
eventNameOf(channelName, eventName) == channelName \o titleCase(eventName) \o "Event"

\* What one command pushes to a tracing list when its flag is set.
tracingPushes(flag, name, methodName) ==
  IF flag
  THEN <<name \o "." \o methodName>>
       \o [i \in 1..Len(derivedOf(name)) |-> derivedOf(name)[i] \o "." \o methodName]
  ELSE <<>>

RECURSIVE commandSchemes(_, _, _)
\* The addScheme calls of the commands from the first of methods on.
commandSchemes(lines, channelName, methods) ==
  IF methods = <<>> THEN lines
  ELSE
    LET method == Head(methods)
        paramsName == paramsNameOf(channelName, method.name)
        parameters == objectType(method.parameters, "", FALSE)
        own == addScheme(lines, paramsName,
                         IF method.hasParameters THEN parameters.scheme
                         ELSE "tOptional(tObject({}))")
        keys == SelectSeq([i \in 1..Len(inherits) |-> inherits[i][1]],
                          LAMBDA key : inheritsFrom(key, channelName))
        aliased[i \in 0..Len(keys)] ==
          IF i = 0 THEN own
          ELSE addScheme(aliased[i - 1], paramsNameOf(keys[i], method.name),
                         "tType('" \o paramsName \o "')")
    IN commandSchemes(aliased[Len(keys)], channelName, Tail(methods))

\* The ts_types.set calls of one command, in order.
commandTypes(channelName, method) ==
  <<<<paramsNameOf(channelName, method.name),
      objectType(method.parameters, "", FALSE).ts>>,
    <<optionsNameOf(channelName, method.name),
      objectType(method.parameters, "", TRUE).ts>>,
    <<resultNameOf(channelName, method.name),
      IF method.hasReturns THEN objectType(method.returns, "", FALSE).ts ELSE "void">>>>

RECURSIVE MapSetAll(_, _)
MapSetAll(m, kvs) ==
  IF kvs = <<>> THEN m
  ELSE MapSetAll(MapSet(m, Head(kvs)[1], Head(kvs)[2]), Tail(kvs))

\* ts_types when the loops over the events and the commands are done.
tsTypesOf(item) ==
  MapSetAll(<<>>,
    [i \in 1..Len(item.events) |->
       <<eventNameOf(item.name, item.events[i].name),
         objectType(item.events[i].parameters, "", FALSE).ts>>]
    \o Flatten([i \in 1..Len(item.commands) |-> commandTypes(item.name, item.commands[i])]))

\* The lines one interface pushes to channels_ts.
interfaceLines(item) ==
  LET channelName == item.name
      ts_types == tsTypesOf(item)
  IN <<Line("// ----------- " \o channelName \o " -----------"),
       TypeDecl(channelName \o "Initializer", objectType(item.initializer, "", FALSE).ts),
       Line("export interface " \o channelName \o "EventTarget {")>>
     \o [i \in 1..Len(item.events) |->
           Line("  on(event: '" \o item.events[i].name \o "', callback: (params: "
                \o eventNameOf(channelName, item.events[i].name) \o ") => void): this;")]
     \o <<Line("}"),
          Line("export interface " \o channelName \o "Channel extends " \o channelName
               \o "EventTarget, " \o item.extends \o "Channel {"),
          Line("  _type_" \o channelName \o ": boolean;")>>
     \o [i \in 1..Len(item.commands) |->
           Line("  " \o item.commands[i].name \o "(params"
                \o (IF item.commands[i].hasParameters THEN "" ELSE "?") \o ": "
                \o paramsNameOf(channelName, item.commands[i].name)
                \o ", metadata?: Metadata): Promise<"
                \o resultNameOf(channelName, item.commands[i].name) \o ">;")]
     \o <<Line("}")>>
     \o [i \in 1..Len(ts_types) |-> TypeDecl(ts_types[i][1], ts_types[i][2])]
     \o <<Line(""), Line("export interface " \o channelName \o "Events {")>>
     \o [i \in 1..Len(item.events) |->
           Line("  '" \o item.events[i].name \o "': "
                \o eventNameOf(channelName, item.events[i].name) \o ";")]
     \o <<Line("}\n")>>

\* The exception one iteration of the main loop throws, "" if none.
entityError(item) ==
  IF item.type = "interface" THEN
    FirstError(<<propertiesError(item.initializer)>>
      \o [i \in 1..Len(item.events) |-> propertiesError(item.events[i].parameters)]
      \o Flatten([i \in 1..Len(item.commands) |->
                    <<propertiesError(item.commands[i].parameters),
                      propertiesError(item.commands[i].returns)>>]))
  ELSE IF item.type = "object" THEN propertiesError(item.properties)
  ELSE ""

\* ---------------------------------------------------------------- files
ChannelsFile == "channels.ts"
ValidatorFile == "validator.ts"

Missing == [exists |-> FALSE, content |-> <<>>]
StaleChannels == [exists |-> TRUE, content |-> <<Line("// out of date")>>]
StaleValidator == [exists |-> TRUE, content |-> <<Entry("", "// out of date")>>]

\* Variant of sameContent: the comparison of line 330 never succeeds
alwaysDiffers(existing, content) == FALSE

\* existing === content, both the texts joined from these elements
sameContent(existing, content) == existing = content

\* The document as the next invocation reads it: left alone, or edited (its
\* last entity removed).
NextDocuments(doc) ==
  {doc} \cup (IF Len(doc) > 1 THEN {SubSeq(doc, 1, Len(doc) - 1)} ELSE {})

\* ---------------------------------------------------------------- the generator
\* The module-level state when the script starts (lines 25-27, 108-176, 326).
Fresh(doc) ==
  /\ protocol' = doc
  /\ channels' = {}
  /\ inherits' = <<>>
  /\ mixins' = EmptyMap
  /\ derivedClasses' = EmptyMap
  /\ channels_ts' = <<Line(ChannelsBanner)>>
  /\ validator_ts' = <<Entry("", ValidatorBanner)>>
  /\ tracingSnapshots' = <<>>
  /\ pausesBeforeInputActions' = <<>>
  /\ hasChanges' = FALSE
  /\ pc' = "index"
  /\ idx' = 1
  /\ exitCode' = -1
  /\ error' = ""
  /\ written' = {}

GenInit ==
  /\ protocol \in Schemas
  /\ channels = {}
  /\ inherits = <<>>
  /\ mixins = EmptyMap
  /\ derivedClasses = EmptyMap
  /\ channels_ts = <<Line(ChannelsBanner)>>
  /\ validator_ts = <<Entry("", ValidatorBanner)>>
  /\ tracingSnapshots = <<>>
  /\ pausesBeforeInputActions = <<>>
  /\ hasChanges = FALSE
  /\ pc = "index"
  /\ idx = 1
  /\ \E c \in {Missing, StaleChannels}, v \in {Missing, StaleValidator} :
       files = (ChannelsFile :> c) @@ (ValidatorFile :> v)
  /\ exitCode = -1
  /\ error = ""
  /\ run = 1
  /\ written = {}
  /\ before = files
  /\ prev = [completed |-> FALSE, unchanged |-> FALSE]

\* Lines 183-191: the channels, inherits and mixins indexes.
BuildIndex ==
  /\ pc = "index"
  /\ channels' = {protocol[i].name : i \in {j \in 1..Len(protocol) :
                                             protocol[j].type = "interface"}}
  /\ inherits' =
       LET subs == SelectSeq(protocol,
                             LAMBDA e : e.type = "interface" /\ e.extends # "")
       IN [i \in 1..Len(subs) |-> <<subs[i].name, subs[i].extends>>]
  /\ mixins' =
       [n \in {protocol[i].name : i \in {j \in 1..Len(protocol) :
                                          protocol[j].type = "mixin"}} |->
          CHOOSE e \in Range(protocol) : e.name = n]
  /\ pc' = "derived"
  /\ UNCHANGED uaVars
  /\ UNCHANGED <<protocol, derivedClasses, channels_ts, validator_ts,
                 tracingSnapshots, pausesBeforeInputActions, hasChanges, idx,
                 files, exitCode, error, run, written, before, prev>>

\* Lines 193-203: derivedClasses.
BuildDerivedClasses ==
  /\ pc = "derived"
  /\ derivedClasses' =
       LET subs == SelectSeq(protocol,
                             LAMBDA e : e.type = "interface" /\ e.extends # "")
       IN [parent \in {subs[i].extends : i \in 1..Len(subs)} |->
             LET mine == SelectSeq(subs, LAMBDA e : e.extends = parent)
             IN [i \in 1..Len(mine) |-> mine[i].name]]
  /\ pc' = "traits"
  /\ UNCHANGED uaVars
  /\ UNCHANGED <<protocol, channels, inherits, mixins, channels_ts, validator_ts,
                 tracingSnapshots, pausesBeforeInputActions, hasChanges, idx,
                 files, exitCode, error, run, written, before, prev>>

\* Lines 205-232: the three trait mappings.
EmitTraits ==
  /\ pc = "traits"
  /\ channels_ts' = channels_ts
       \o <<Line("// ----------- Initializer Traits -----------"),
            Line("export type InitializerTraits<T> =")>>
       \o traitBranches("Initializer")
       \o <<Line("    object;"), Line(""),
            Line("// ----------- Event Traits -----------"),
            Line("export type EventsTraits<T> =")>>
       \o traitBranches("Events")
       \o <<Line("    undefined;"), Line(""),
            Line("// ----------- EventTarget Traits -----------"),
            Line("export type EventTargetTraits<T> =")>>
       \o traitBranches("EventTarget")
       \o <<Line("    undefined;"), Line("")>>
  /\ pc' = "emit"
  /\ UNCHANGED uaVars
  /\ UNCHANGED <<protocol, channels, inherits, mixins, derivedClasses, validator_ts,
                 tracingSnapshots, pausesBeforeInputActions, hasChanges, idx,
                 files, exitCode, error, run, written, before, prev>>

\* One iteration of the loop of lines 234-311 that throws: the process ends,
\* nothing of its memory is kept and no file was touched.
EmitThrows ==
  /\ pc = "emit"
  /\ idx <= Len(protocol)
  /\ entityError(protocol[idx]) # ""
  /\ error' = entityError(protocol[idx])
  /\ pc' = "failed"
  /\ UNCHANGED uaVars
  /\ UNCHANGED <<protocol, channels, inherits, mixins, derivedClasses, channels_ts,
                 validator_ts, tracingSnapshots, pausesBeforeInputActions,
                 hasChanges, idx, files, exitCode, run, written, before, prev>>

\* Lines 235-299: one interface.
EmitInterface ==
  /\ pc = "emit"
  /\ idx <= Len(protocol)
  /\ protocol[idx].type = "interface"
  /\ entityError(protocol[idx]) = ""
  /\ LET item == protocol[idx]
     IN /\ channels_ts' = channels_ts \o interfaceLines(item)
        /\ validator_ts' = commandSchemes(validator_ts, item.name, item.commands)
        /\ tracingSnapshots' = tracingSnapshots
             \o Flatten([i \in 1..Len(item.commands) |->
                  tracingPushes(item.commands[i].snapshot, item.name,
                                item.commands[i].name)])
        /\ pausesBeforeInputActions' = pausesBeforeInputActions
             \o Flatten([i \in 1..Len(item.commands) |->
                  tracingPushes(item.commands[i].pausesBeforeInput, item.name,
                                item.commands[i].name)])
  /\ idx' = idx + 1
  /\ UNCHANGED uaVars
  /\ UNCHANGED <<protocol, channels, inherits, mixins, derivedClasses, hasChanges,
                 pc, files, exitCode, error, run, written, before, prev>>

\* Lines 301-305: one object.
EmitObject ==
  /\ pc = "emit"
  /\ idx <= Len(protocol)
  /\ protocol[idx].type = "object"
  /\ entityError(protocol[idx]) = ""
  /\ LET item == protocol[idx]
         inner == objectType(item.properties, "", FALSE)
     IN /\ channels_ts' = channels_ts \o <<TypeDecl(item.name, inner.ts), Line("")>>
        /\ validator_ts' = addScheme(validator_ts, item.name, inner.scheme)
  /\ idx' = idx + 1
  /\ UNCHANGED uaVars
  /\ UNCHANGED <<protocol, channels, inherits, mixins, derivedClasses,
                 tracingSnapshots, pausesBeforeInputActions, hasChanges, pc, files,
                 exitCode, error, run, written, before, prev>>

\* Lines 306-310: one enum.
EmitEnum ==
  /\ pc = "emit"
  /\ idx <= Len(protocol)
  /\ protocol[idx].type = "enum"
  /\ LET item == protocol[idx]
     IN /\ channels_ts' = Append(channels_ts,
             TypeDecl(item.name, Join(Quoted(item.literals), " | ")))
        /\ validator_ts' = addScheme(validator_ts, item.name,
             "tEnum([" \o Join(Quoted(item.literals), ", ") \o "])")
  /\ idx' = idx + 1
  /\ UNCHANGED uaVars
  /\ UNCHANGED <<protocol, channels, inherits, mixins, derivedClasses,
                 tracingSnapshots, pausesBeforeInputActions, hasChanges, pc, files,
                 exitCode, error, run, written, before, prev>>

\* Lines 234-311: a mixin entity matches no branch of the loop body.
SkipMixin ==
  /\ pc = "emit"
  /\ idx <= Len(protocol)
  /\ protocol[idx].type = "mixin"
  /\ idx' = idx + 1
  /\ UNCHANGED uaVars
  /\ UNCHANGED <<protocol, channels, inherits, mixins, derivedClasses, channels_ts,
                 validator_ts, tracingSnapshots, pausesBeforeInputActions,
                 hasChanges, pc, files, exitCode, error, run, written, before, prev>>

\* Lines 313-324: the two name sets and the end of createScheme.
Finish ==
  /\ pc = "emit"
  /\ idx > Len(protocol)
  /\ channels_ts' = channels_ts
       \o <<Line("export const commandsWithTracingSnapshots = new Set([\n  '"
                 \o Join(tracingSnapshots, "',\n  '") \o "'\n]);"),
            Line(""),
            Line("export const pausesBeforeInputActions = new Set([\n  '"
                 \o Join(pausesBeforeInputActions, "',\n  '") \o "'\n]);")>>
  /\ validator_ts' = Append(validator_ts, Entry("", ValidatorTrailer))
  /\ pc' = "writeChannels"
  /\ UNCHANGED uaVars
  /\ UNCHANGED <<protocol, channels, inherits, mixins, derivedClasses,
                 tracingSnapshots, pausesBeforeInputActions, hasChanges, idx,
                 files, exitCode, error, run, written, before, prev>>

\* writeFile(filePath, content), lines 328-336, then `next`.
writeFile(filePath, content, next) ==
  /\ \/ /\ ~files[filePath].exists          \* fs.readFileSync throws ENOENT
        /\ error' = "ENOENT"
        /\ pc' = "failed"
        /\ UNCHANGED <<files, hasChanges, written>>
     \/ /\ files[filePath].exists
        /\ sameContent(files[filePath].content, content)
        /\ pc' = next
        /\ UNCHANGED <<files, hasChanges, written, error>>
     \/ /\ files[filePath].exists
        /\ ~sameContent(files[filePath].content, content)
        /\ hasChanges' = TRUE
        /\ files' = [files EXCEPT ![filePath] = [exists |-> TRUE, content |-> content]]
        /\ written' = written \cup {filePath}
        /\ pc' = next
        /\ UNCHANGED error
  /\ UNCHANGED uaVars
  /\ UNCHANGED <<protocol, channels, inherits, mixins, derivedClasses, channels_ts,
                 validator_ts, tracingSnapshots, pausesBeforeInputActions, idx,
                 exitCode, run, before, prev>>

\* Line 338.
WriteChannels ==
  /\ pc = "writeChannels"
  /\ writeFile(ChannelsFile, channels_ts, "writeValidator")

\* Line 339.
WriteValidator ==
  /\ pc = "writeValidator"
  /\ writeFile(ValidatorFile, validator_ts, "exit")

\* Line 340: process.exit(hasChanges ? 1 : 0).
Exit ==
  /\ pc = "exit"
  /\ exitCode' = IF hasChanges THEN 1 ELSE 0
  /\ pc' = "done"
  /\ UNCHANGED uaVars
  /\ UNCHANGED <<protocol, channels, inherits, mixins, derivedClasses, channels_ts,
                 validator_ts, tracingSnapshots, pausesBeforeInputActions,
                 hasChanges, idx, files, error, run, written, before, prev>>

\* The script is started again: a new process, the same two files.
Rerun ==
  /\ pc \in {"done", "failed"}
  /\ run < MaxRuns
  /\ \E doc \in NextDocuments(protocol) :
       /\ Fresh(doc)
       /\ prev' = [completed |-> pc = "done", unchanged |-> doc = protocol]
  /\ run' = run + 1
  /\ before' = files
  /\ UNCHANGED <<files, uaVars>>

GenNext ==
  \/ BuildIndex
  \/ BuildDerivedClasses
  \/ EmitTraits
  \/ EmitThrows
  \/ EmitInterface
  \/ EmitObject
  \/ EmitEnum
  \/ SkipMixin
  \/ Finish
  \/ WriteChannels
  \/ WriteValidator
  \/ Exit
  \/ Rerun

\* ---------------------------------------------------------------- userAgent.ts
\* What the process runs in: process.platform, os.release().split('.'), the
\* outcome of execSync('sw_vers -productVersion'), the value of
\* getLinuxDistributionInfoSync() (<<>> for undefined), process.env,
\* process.version and package.json.
Environments ==
  [platform : {"win32", "darwin", "linux", "freebsd"},
   release : {<<"10", "0", "19045">>, <<"6">>},
   sw_vers : {[throws |-> TRUE, version |-> <<>>],
              [throws |-> FALSE, version |-> <<"13", "4", "1">>]},
   distroInfo : {<<>>, <<[id |-> "ubuntu", version |-> "22.04"]>>,
                 <<[id |-> "", version |-> ""]>>},
   CI : BOOLEAN,
   PW_LANG_NAME : {"", "python", "ruby"},
   PW_LANG_NAME_VERSION : {<<>>, <<"3.9">>},
   arch : {"x64"},
   nodeVersion : {<<"18", "12", "1">>},
   packageVersion : {"1.30.0"}]

\* version[i] inside a template literal
Part(version, i) == IF i <= Len(version) THEN version[i] ELSE "undefined"

\* getClientLanguage(), lines 65-76
getClientLanguage(e) ==
  IF e.PW_LANG_NAME = ""
  THEN [langName |-> "node",
        langVersion |-> Join(SubSeq(e.nodeVersion, 1, 2), ".")]
  ELSE IF e.PW_LANG_NAME \in {"node", "python", "java", "csharp"}
  THEN [langName |-> e.PW_LANG_NAME,
        langVersion |-> IF e.PW_LANG_NAME_VERSION = <<>> THEN "unknown"
                        ELSE e.PW_LANG_NAME_VERSION[1]]
  ELSE [langName |-> "unknown", langVersion |-> "unknown"]

\* getPlaywrightVersion(), lines 78-81, majorMinorOnly = false
getPlaywrightVersion(e) == e.packageVersion

\* determineUserAgent(), lines 34-63: the string it returns, or throws = TRUE
\* when execSync does.
determineUserAgent(e) ==
  LET os == IF e.platform = "win32"
            THEN [id |-> "windows",
                  version |-> Part(e.release, 1) \o "." \o Part(e.release, 2)]
            ELSE IF e.platform = "darwin"
            THEN [id |-> "macOS",
                  version |-> Part(e.sw_vers.version, 1) \o "."
                              \o Part(e.sw_vers.version, 2)]
            ELSE IF e.platform = "linux"
            THEN IF e.distroInfo # <<>>
                 THEN [id |-> IF e.distroInfo[1].id # "" THEN e.distroInfo[1].id
                              ELSE "linux",
                       version |-> IF e.distroInfo[1].version # ""
                                   THEN e.distroInfo[1].version ELSE "unknown"]
                 ELSE [id |-> "linux", version |-> "unknown"]
            ELSE [id |-> "unknown", version |-> "unknown"]
      additionalTokens == IF e.CI THEN <<"CI/1">> ELSE <<>>
      serializedTokens == IF Len(additionalTokens) # 0
                          THEN " " \o Join(additionalTokens, " ") ELSE ""
      lang == getClientLanguage(e)
  IN [throws |-> e.platform = "darwin" /\ e.sw_vers.throws,
      value |-> "Playwright/" \o getPlaywrightVersion(e) \o " (" \o e.arch \o "; "
                \o os.id \o " " \o os.version \o ") " \o lang.langName \o "/"
                \o lang.langVersion \o serializedTokens]

\* Variant of cacheHit: the cache is never consulted
cacheNeverHit(cached) == FALSE

\* if (cachedUserAgent): the cache holds a non-empty string (<<>> is undefined)
cacheHit(cached) == cached # <<>> /\ cached[1] # ""

\* getUserAgent(), lines 23-25: the cached value is returned.
GetUserAgentCached ==
  /\ pc = "userAgent"
  /\ Len(returned) < MaxCalls
  /\ cacheHit(cachedUserAgent)
  /\ returned' = Append(returned, cachedUserAgent[1])
  /\ UNCHANGED <<cachedUserAgent, env, determineCalls, genVars>>

\* getUserAgent(), lines 26-31: the value is determined and cached.
GetUserAgentDetermine ==
  /\ pc = "userAgent"
  /\ Len(returned) < MaxCalls
  /\ ~cacheHit(cachedUserAgent)
  /\ determineCalls' = determineCalls + 1
  /\ LET result == determineUserAgent(env)
         value == IF result.throws THEN "Playwright/unknown" ELSE result.value
     IN /\ cachedUserAgent' = <<value>>
        /\ returned' = Append(returned, value)
  /\ UNCHANGED <<env, genVars>>

\* The module is loaded: line 21.
UAInit ==
  /\ cachedUserAgent = <<>>
  /\ env \in Environments
  /\ determineCalls = 0
  /\ returned = <<>>

\* No generator runs in a process that asks for the user agent.
GenIdle ==
  /\ protocol = <<>>
  /\ channels = {}
  /\ inherits = <<>>
  /\ mixins = EmptyMap
  /\ derivedClasses = EmptyMap
  /\ channels_ts = <<>>
  /\ validator_ts = <<>>
  /\ tracingSnapshots = <<>>
  /\ pausesBeforeInputActions = <<>>
  /\ hasChanges = FALSE
  /\ pc = "userAgent"
  /\ idx = 1
  /\ files = (ChannelsFile :> Missing) @@ (ValidatorFile :> Missing)
  /\ exitCode = -1
  /\ error = ""
  /\ run = 1
  /\ written = {}
  /\ before = files
  /\ prev = [completed |-> FALSE, unchanged |-> FALSE]

UANext ==
  \/ GetUserAgentCached
  \/ GetUserAgentDetermine

\* No user agent is asked for while the generator runs.
UAIdle ==
  /\ cachedUserAgent = <<>>
  /\ env = <<>>
  /\ determineCalls = 0
  /\ returned = <<>>

Init == GenInit /\ UAIdle
Spec == Init /\ [][GenNext]_vars

UASpecInit == GenIdle /\ UAInit
UASpec == UASpecInit /\ [][UANext]_vars

\* ---------------------------------------------------------------- vocabulary of the claims
\* Both artifacts are complete in memory.
Emitted ==
  \/ pc \in {"writeChannels", "writeValidator", "exit", "done"}
  \/ pc = "failed" /\ error = "ENOENT"

\* The run threw while it generated.
GenerationFailed == pc = "failed" /\ error \in {"TypeError", "Error: Invalid item"}

InterfacesIn(doc) == {e \in Range(doc) : e.type = "interface"}
MixinNamesIn(doc) == {e.name : e \in {x \in Range(doc) : x.type = "mixin"}}
EntityNamesIn(doc) == {e.name : e \in Range(doc)}
MixinIn(doc, n) == CHOOSE e \in Range(doc) : e.type = "mixin" /\ e.name = n

\* The property lists the main loop resolves.
ResolvedLists(doc) ==
  UNION {{e.initializer} \cup {ev.parameters : ev \in Range(e.events)}
         \cup {c.parameters : c \in Range(e.commands)}
         \cup {c.returns : c \in Range(e.commands)} : e \in InterfacesIn(doc)}
  \cup {e.properties : e \in {x \in Range(doc) : x.type = "object"}}

Primitives == {"binary", "json", "string", "boolean", "number", "undefined", "Channel"}

RECURSIVE RefsIn(_), RefsInType(_)
\* The names a property list refers to as a Reference or ChannelReference.
RefsIn(props) ==
  IF props = <<>> THEN {}
  ELSE (IF IsMixinKey(Head(props).name) THEN {} ELSE RefsInType(Head(props).value))
       \cup RefsIn(Tail(props))
RefsInType(type) ==
  IF type.tag = "token" THEN {type.name} \ Primitives
  ELSE IF type.tag = "array" THEN RefsInType(type.items[1])
  ELSE IF type.tag = "object" THEN RefsIn(type.properties)
  ELSE {}

RECURSIVE SpliceFails(_, _), SpliceFailsInType(_, _)
\* Resolving the list meets a splice that names no mixin of the document.
SpliceFails(doc, props) ==
  /\ props # <<>>
  /\ \/ IF IsMixinKey(Head(props).name)
        THEN \/ TokenString(Head(props).value) \notin MixinNamesIn(doc)
             \/ SpliceFails(doc, MixinIn(doc, TokenString(Head(props).value)).properties)
        ELSE SpliceFailsInType(doc, Head(props).value)
     \/ SpliceFails(doc, Tail(props))
SpliceFailsInType(doc, type) ==
  IF type.tag = "array" THEN SpliceFailsInType(doc, type.items[1])
  ELSE IF type.tag = "object" THEN SpliceFails(doc, type.properties)
  ELSE FALSE

C2_NoPartialOutput ==
  /\ (pc = "failed" /\ error = "ENOENT") => written = {}
  /\ pc \in {"done", "failed"} =>
       \/ files = before
       \/ /\ files[ChannelsFile] = [exists |-> TRUE, content |-> channels_ts]
          /\ files[ValidatorFile] = [exists |-> TRUE, content |-> validator_ts]

\* ---------------------------------------------------------------- C3
\* C3: idempotence.  A completed run leaves in both files what it generated;
\* a run on the schema of the completed run before it generates, byte for
\* byte, the two contents that run left, writes no file, keeps hasChanges
\* false and exits with 0; in any completed run a file was written exactly
\* when its content differed from the generated one, and the status is 1
\* exactly when a file was written.
C3_Idempotence ==
  /\ pc = "done" =>
       /\ files[ChannelsFile] = [exists |-> TRUE, content |-> channels_ts]
       /\ files[ValidatorFile] = [exists |-> TRUE, content |-> validator_ts]
  /\ (prev.completed /\ prev.unchanged /\ Emitted) =>
       /\ channels_ts = before[ChannelsFile].content
       /\ validator_ts = before[ValidatorFile].content
       /\ files = before
       /\ written = {}
       /\ ~hasChanges
       /\ pc # "failed"
  /\ (prev.completed /\ prev.unchanged /\ pc = "done") => exitCode = 0
  /\ pc = "done" =>
       /\ (ChannelsFile \in written) <=> (before[ChannelsFile].content # channels_ts)
       /\ (ValidatorFile \in written) <=> (before[ValidatorFile].content # validator_ts)
       /\ (exitCode = 1) <=> (written # {})
       /\ exitCode \in {0, 1}
       /\ hasChanges <=> (written # {})

\* A second run on the unchanged schema ended, after a first run that wrote.
C3_Witness ==
  /\ pc = "done"
  /\ run > 1
  /\ prev.completed
  /\ prev.unchanged
  /\ exitCode = 0
  /\ files[ChannelsFile].content = channels_ts
  /\ Len(protocol) > 1

\* ---------------------------------------------------------------- validator registry
\* Number of `scheme.${name} = ...;` assignments of validator_ts.
Assignments(name) == Cardinality({i \in 1..Len(validator_ts) : validator_ts[i].name = name})

\* The validator the name holds once createScheme has run: the last assignment.
LastAssigned(name) ==
  LET at == {i \in 1..Len(validator_ts) : validator_ts[i].name = name}
  IN validator_ts[CHOOSE i \in at : \A j \in at : j <= i].s

\* The validator of the command's own parameters (line 278).
OwnValidator(method) ==
  IF method.hasParameters THEN objectType(method.parameters, "", FALSE).scheme
  ELSE "tOptional(tObject({}))"

AliasOf(paramsName) == "tType('" \o paramsName \o "')"

Declares(e, methodName) == \E c \in Range(e.commands) : c.name = methodName

\* The interface the channel extends, if the document holds it.
ParentsOf(doc, e) == {a \in InterfacesIn(doc) : e.extends = a.name}

DeclaredTypes == {channels_ts[i].name : i \in {j \in 1..Len(channels_ts) :
                                                channels_ts[j].kind = "type"}}
NamedTypes(doc) == {e.name : e \in {x \in Range(doc) : x.type \in {"object", "enum"}}}

DirectNames(doc, Flag(_)) ==
  {e.name \o "." \o c.name : <<e, c>> \in
     {<<x, y>> \in InterfacesIn(doc) \X UNION {Range(x.commands) : x \in InterfacesIn(doc)} :
        y \in Range(x.commands) /\ Flag(y)}}
  \cup
  {d.name \o "." \o c.name : <<d, c>> \in
     {<<x, y>> \in InterfacesIn(doc) \X UNION {Range(x.commands) : x \in InterfacesIn(doc)} :
        \E a \in ParentsOf(doc, x) : y \in Range(a.commands) /\ Flag(y)}}

\* C6: direct-only propagation.  The snapshot set holds "X.m" for every
\* command m that X declares with tracing.snapshot and "D.m" for every D whose
\* `extends` is X, and nothing else: no "G.m" for a G two or more steps below
\* X, unless G or G's own parent declares m with the flag.  The same for
\* tracing.pausesBeforeInput.
C6_DirectOnlyPropagation ==
  Emitted =>
    /\ Range(tracingSnapshots) = DirectNames(protocol, LAMBDA c : c.snapshot)
    /\ Range(pausesBeforeInputActions)
         = DirectNames(protocol, LAMBDA c : c.pausesBeforeInput)

\* A chain G extends D extends X where only X declares the flagged command:
\* the set holds X.m and D.m and not G.m.
C6_Witness ==
  /\ Emitted
  /\ \E x, d, g \in InterfacesIn(protocol) : \E m \in Range(x.commands) :
       /\ d.extends = x.name
       /\ g.extends = d.name
       /\ m.snapshot
       /\ ~Declares(d, m.name)
       /\ ~Declares(g, m.name)
       /\ x.name \o "." \o m.name \in Range(tracingSnapshots)
       /\ d.name \o "." \o m.name \in Range(tracingSnapshots)
       /\ g.name \o "." \o m.name \notin Range(tracingSnapshots)

\* ---------------------------------------------------------------- C7
RECURSIVE Expanded(_, _)
\* The property list with every mixin splice replaced by the mixin's own
\* list, recursively, in place.
Expanded(doc, props) ==
  IF props = <<>> THEN <<>>
  ELSE (IF IsMixinKey(Head(props).name)
        THEN Expanded(doc, MixinIn(doc, TokenString(Head(props).value)).properties)
        ELSE <<Head(props)>>)
       \o Expanded(doc, Tail(props))

\* The text of the type the name is declared as in channels.ts.
DeclaredAs(name) ==
  LET at == {i \in 1..Len(channels_ts) :
               channels_ts[i].kind = "type" /\ channels_ts[i].name = name}
  IN channels_ts[CHOOSE i \in at : TRUE].text

\* A field of an object type literal: its name, the `?` of an optional field
\* and its static type.
Field(p) ==
  "  " \o p.name \o (IF p.value.optional THEN "?" ELSE "") \o ": "
  \o inlineType(p.value, "  ", FALSE).ts \o ","

\* The object type literal of the fields; `{}` where the command's parameter
\* list is empty as written.
TypeLiteral(asWritten, fields) ==
  IF asWritten = <<>> THEN "{}"
  ELSE "{\n" \o Join([i \in 1..Len(fields) |-> Field(fields[i])], "\n") \o "\n}"

\* C7: optional projection.  For every command the ...Options type is the
\* ...Params type restricted to the optional fields of the expanded parameter
\* list: those k fields, in their order, each with its type unchanged, and no
\* required field.
C7_OptionalProjection ==
  Emitted =>
    \A e \in InterfacesIn(protocol) : \A c \in Range(e.commands) :
      LET fields == Expanded(protocol, c.parameters)
          optional == SelectSeq(fields, LAMBDA p : p.value.optional)
      IN /\ DeclaredAs(paramsNameOf(e.name, c.name))
              = TypeLiteral(c.parameters, fields)
         /\ DeclaredAs(optionsNameOf(e.name, c.name))
              = TypeLiteral(c.parameters, optional)

\* Emitted for a command whose parameters splice a mixin and hold both
\* optional and required fields.
C7_Witness ==
  /\ Emitted
  /\ \E e \in InterfacesIn(protocol) : \E c \in Range(e.commands) :
       LET fields == Expanded(protocol, c.parameters)
           optional == SelectSeq(fields, LAMBDA p : p.value.optional)
       IN /\ \E i \in 1..Len(c.parameters) : IsMixinKey(c.parameters[i].name)
          /\ Len(fields) > Len(c.parameters)
          /\ Len(optional) > 1
          /\ Len(optional) < Len(fields)
          /\ DeclaredAs(optionsNameOf(e.name, c.name))
               # DeclaredAs(paramsNameOf(e.name, c.name))

\* ---------------------------------------------------------------- C8
\* The lines of channels.ts after the heading line up to the line that ends
\* the conditional chain.
ChainAfter(heading) ==
  LET h == CHOOSE i \in 1..Len(channels_ts) : channels_ts[i] = Line(heading)
      ends == {j \in (h + 1)..Len(channels_ts) :
                 channels_ts[j].text \in {"    object;", "    undefined;"}}
      last == CHOOSE j \in ends : \A k \in ends : j <= k
  IN SubSeq(channels_ts, h + 1, last - 1)

\* One branch per interface of the document, the last declared first.
BranchesFor(suffix) ==
  LET names == SelectSeq([i \in 1..Len(protocol) |-> protocol[i]],
                         LAMBDA e : e.type = "interface")
      n == Len(names)
  IN [i \in 1..n |->
        Line("    T extends " \o names[n + 1 - i].name \o "Channel ? "
             \o names[n + 1 - i].name \o suffix \o " :")]

TraitsEmitted == pc \notin {"index", "derived", "traits", "userAgent"}

\* C8: trait-chain precedence.  Each of the three trait mappings has exactly
\* one branch per channel, none for an object, enum or mixin, in reverse
\* document order: the last declared channel is tested first.
C8_TraitChainPrecedence ==
  TraitsEmitted =>
    /\ ChainAfter("export type InitializerTraits<T> =") = BranchesFor("Initializer")
    /\ ChainAfter("export type EventsTraits<T> =") = BranchesFor("Events")
    /\ ChainAfter("export type EventTargetTraits<T> =") = BranchesFor("EventTarget")

\* The chains emitted for a document of two channels or more and an entity
\* that is no channel.
C8_Witness ==
  /\ TraitsEmitted
  /\ Cardinality(InterfacesIn(protocol)) >= 2
  /\ \E e \in Range(protocol) : e.type # "interface"
  /\ Len(ChainAfter("export type EventsTraits<T> =")) = Cardinality(InterfacesIn(protocol))

\* ---------------------------------------------------------------- C9
\* C9: the own declaration wins.  Where B extends A and both declare the
\* command m, the last assignment to scheme.B+m+Params is B's own parameter
\* validator and not the alias of A's, wherever B stands in the document.
C9_OwnDeclarationWins ==
  Emitted =>
    \A b \in InterfacesIn(protocol) : \A a \in ParentsOf(protocol, b) :
      \A m \in Range(b.commands) :
        Declares(a, m.name) =>
          /\ LastAssigned(paramsNameOf(b.name, m.name)) = OwnValidator(m)
          /\ LastAssigned(paramsNameOf(b.name, m.name))
               # AliasOf(paramsNameOf(a.name, m.name))

\* ---------------------------------------------------------------- C10
\* C10: memoisation.  determineUserAgent() runs at most once; every call of
\* getUserAgent() returns the non-empty string the first call returned; when
\* the determination throws, that string is 'Playwright/unknown' and nothing
\* is determined again.
C10_UserAgentMemoised ==
  /\ determineCalls <= 1
  /\ determineCalls = (IF returned = <<>> THEN 0 ELSE 1)
  /\ \A i \in 1..Len(returned) : returned[i] = returned[1] /\ returned[i] # ""
  /\ returned # <<>> =>
       /\ cachedUserAgent = <<returned[1]>>
       /\ returned[1] = (IF determineUserAgent(env).throws THEN "Playwright/unknown"
                         ELSE determineUserAgent(env).value)

\* A later call after a first determination that threw.
C10_Witness ==
  /\ Len(returned) >= 2
  /\ determineUserAgent(env).throws
  /\ returned[2] = "Playwright/unknown"
  /\ determineCalls = 1

====
